---- MODULE Spec2Model ----
(***************************************************************************)
(* TrendRIT front end: Home (app/page.tsx), UploadSection, MemeGallery,    *)
(* ProcessingModal.  Every fetch is a message in flight; every React state *)
(* cell is a variable; every handler, timer callback and settled promise   *)
(* is one action.                                                          *)
(***************************************************************************)
EXTENDS Integers, Sequences, FiniteSets, TLC

\* ---------------------------------------------------------------- bounds
MaxMemes == 2       \* successful uploads (meme ids are 1..MaxMemes)
MaxUploads == 2     \* upload requests in flight at once
MaxInflight == 2    \* stage requests in flight at once, per stage

\* ------------------------------------------------------- program constants
NoId == 0                              \* null for string | null ids
LastStep == 4                          \* steps.length - 1
NoError == "null"
NotImageError == "Please select an image file"
UploadFailedError == "Failed to upload. Please try again."

MemeIds == 1..MaxMemes
Stages == {"generate3d", "export"}
Outcomes == {"ok", "notok", "throw"}   \* response.ok, !response.ok, fetch/json rejected
FileTypes == {<<"image", "png">>, <<"image", "gif">>, <<"text", "plain">>}

\* file.type.startsWith("image/") on a type/subtype pair
StartsWithImage(type) == type[1] = "image"

VARIABLES
  memes,          \* Home: list of {id, status}, newest first
  isProcessing,   \* Home
  currentMemeId,  \* Home
  isLoading,      \* UploadSection
  error,          \* UploadSection
  uploads,        \* UploadSection: POST /upload requests in flight
  uploadAttempts, \* history: fetches issued by the upload call that settled last
  step,           \* ProcessingModal
  isComplete,     \* ProcessingModal
  interval,       \* ProcessingModal: the effect's setInterval is armed
  timeouts,       \* ProcessingModal: pending setTimeout(onComplete(memeId)), in firing order
  generatingId,   \* MemeGallery
  exportingId,    \* MemeGallery
  inflight,       \* MemeGallery: requests in flight per <<stage, meme>>
  done,           \* history: <<meme, stage>> pairs whose request came back ok
  failedStages,   \* history: <<meme, stage>> pairs whose request came back non-ok or threw
  completed,      \* history: memes for which onComplete(memeId) was invoked
  onCompleteCalls,    \* history: how many times onComplete(memeId) was invoked, per meme
  trends,             \* TrendingSection
  trendingIsLoading,  \* TrendingSection: isLoading
  selectedCategory,   \* TrendingSection
  trendRequests,      \* TrendingSection: GET /trending requests in flight, per category
  sceneVersion,   \* Scene: optimistic version
  sceneTransform, \* Scene: last committed transform
  clientRead,     \* per client: the version it last read (NoRead before any read)
  lastWrite,      \* the last transform write: <<client, version carried, result>>
  accepted,       \* history: <<client, version carried>> of every accepted write
  parent,         \* SceneGraph: parent index of every object (NoParent for a root)
  lastAttach,     \* the last attach: <<object, parent, result>>
  trajectory,     \* Renderer: the camera trajectory, a list of samples
  frameRate,      \* FrameEncoder: requested frame rate
  frames,         \* Renderer: frames emitted so far
  encoded,        \* FrameEncoder: frames appended so far
  artifact        \* FrameEncoder: the finished artifact's metadata

homeVars == <<memes, isProcessing, currentMemeId>>
uploadVars == <<isLoading, error, uploads, uploadAttempts>>
modalVars == <<step, isComplete, interval, timeouts, completed, onCompleteCalls>>
galleryVars == <<generatingId, exportingId, inflight, done, failedStages>>
trendVars == <<trends, trendingIsLoading, selectedCategory, trendRequests>>
frontVars == <<homeVars, uploadVars, modalVars, galleryVars, trendVars>>
sceneVars == <<sceneVersion, sceneTransform, clientRead, lastWrite, accepted, parent, lastAttach>>
renderVars == <<trajectory, frameRate, frames, encoded, artifact>>
vars == <<frontVars, sceneVars, renderVars, trendVars>>

\* ------------------------------------------------------------- helpers
Ids(ms) == {ms[i].id : i \in 1..Len(ms)}
StatusOf(ms, m) == ms[CHOOSE i \in 1..Len(ms) : ms[i].id = m].status
Total(s) == LET Sum[k \in 0..MaxMemes] == IF k = 0 THEN 0 ELSE Sum[k - 1] + inflight[<<s, k>>]
            IN  Sum[MaxMemes]

\* ================================================================ Home
\* page.tsx:103  {isProcessing && currentMemeId && <ProcessingModal .../>}
ModalMounted == isProcessing /\ currentMemeId # NoId

\* What a re-render of Home does to ProcessingModal: unmount runs the effect
\* cleanup (clearInterval) and drops step/isComplete; mount starts at
\* useState(0)/useState(false) and arms the interval; a re-render while
\* mounted hands the modal a new onComplete (and memeId), so the effect's
\* cleanup runs and a fresh interval is armed, step and isComplete kept.
\* Pending setTimeout callbacks are never cleared.
ModalAfterRender ==
  IF ~ModalMounted'
    THEN step' = 0 /\ isComplete' = FALSE /\ interval' = FALSE
    ELSE IF ~ModalMounted
      THEN step' = 0 /\ isComplete' = FALSE /\ interval' = TRUE
      ELSE step' = step /\ isComplete' = isComplete /\ interval' = TRUE

handleUploadSuccessRestamp(memeId, imageUrl) ==
  /\ memes' = <<[id |-> memeId, image_url |-> imageUrl, status |-> "processing"]>>
                 \o [i \in 1..Len(memes) |-> [memes[i] EXCEPT !.status = "uploaded"]]
  /\ isProcessing' = TRUE
  /\ currentMemeId' = memeId
  /\ ModalAfterRender

handleUploadSuccess(memeId, imageUrl) ==
  /\ memes' = <<[id |-> memeId, image_url |-> imageUrl, status |-> "processing"]>> \o memes
  /\ isProcessing' = TRUE
  /\ currentMemeId' = memeId
  /\ ModalAfterRender

handleProcessingCompleteKeepsId(memeId) ==
  /\ isProcessing' = FALSE
  /\ currentMemeId' = currentMemeId
  /\ memes' = memes
  /\ ModalAfterRender

handleProcessingComplete(memeId) ==
  /\ isProcessing' = FALSE
  /\ currentMemeId' = NoId
  /\ memes' = memes
  /\ ModalAfterRender

\* ======================================================= UploadSection
handleFileUploadNoReturn(file) ==
  /\ uploads < MaxUploads
  /\ isLoading' = TRUE
  /\ error' = NoError
  /\ uploads' = uploads + 1

handleFileUpload(file) ==
  IF ~StartsWithImage(file)
    THEN /\ error' = NotImageError
         /\ UNCHANGED <<isLoading, uploads>>
    ELSE /\ uploads < MaxUploads
         /\ isLoading' = TRUE
         /\ error' = NoError
         /\ uploads' = uploads + 1

SelectOrDropFile ==
  /\ \E file \in FileTypes : handleFileUpload(file)
  /\ UNCHANGED <<uploadAttempts, homeVars, modalVars, galleryVars, sceneVars, renderVars, trendVars>>

\* the body of the n-th successful POST /upload: a fresh meme_id and the url
\* the image is served from
UploadData(n) == [meme_id |-> n, image_url |-> <<"uploads", n>>]

\* the awaited fetch of handleFileUpload settles with the given outcome:
\* try / catch / finally
uploadResponseUnchecked(outcome) ==
  /\ uploads > 0
  /\ uploads' = uploads - 1
  /\ uploadAttempts' = 1
  /\ isLoading' = FALSE
  /\ IF outcome # "throw"
       THEN /\ Len(memes) < MaxMemes
            /\ LET data == UploadData(Len(memes) + 1)
               IN  handleUploadSuccess(data.meme_id, data.image_url)
            /\ error' = error
       ELSE /\ error' = UploadFailedError
            /\ UNCHANGED <<homeVars, step, isComplete, interval>>

uploadResponse(outcome) ==
  /\ uploads > 0
  /\ uploads' = uploads - 1
  /\ uploadAttempts' = 1
  /\ isLoading' = FALSE
  /\ IF outcome = "ok"
       THEN /\ Len(memes) < MaxMemes
            /\ LET data == UploadData(Len(memes) + 1)
               IN  handleUploadSuccess(data.meme_id, data.image_url)
            /\ error' = error
       ELSE /\ error' = UploadFailedError
            /\ UNCHANGED <<homeVars, step, isComplete, interval>>

UploadSettles ==
  /\ \E outcome \in Outcomes : uploadResponse(outcome)
  /\ UNCHANGED <<timeouts, completed, onCompleteCalls, galleryVars, sceneVars, renderVars, trendVars>>

\* ===================================================== ProcessingModal
\* the setInterval callback: setStep(prev => ...)
Tick ==
  /\ interval
  /\ IF step >= LastStep
       THEN /\ isComplete' = TRUE
            /\ interval' = FALSE
            /\ timeouts' = Append(timeouts, currentMemeId)
            /\ step' = step
       ELSE /\ step' = step + 1
            /\ UNCHANGED <<isComplete, interval, timeouts>>
  /\ UNCHANGED <<homeVars, uploadVars, galleryVars, completed, onCompleteCalls, sceneVars, renderVars, trendVars>>

\* the oldest pending setTimeout(() => onComplete(memeId), 2000) fires
TimeoutFires ==
  /\ timeouts # <<>>
  /\ handleProcessingComplete(Head(timeouts))
  /\ completed' = completed \cup {Head(timeouts)}
  /\ onCompleteCalls' = [onCompleteCalls EXCEPT ![Head(timeouts)] = @ + 1]
  /\ timeouts' = Tail(timeouts)
  /\ UNCHANGED <<uploadVars, galleryVars, sceneVars, renderVars, trendVars>>

\* ========================================================= MemeGallery
\* header.tsx:146  disabled={generatingId === meme.id || meme.status === "processing"}
Generate3DDisabled(m) == generatingId = m \/ StatusOf(memes, m) = "processing"
\* header.tsx:164  disabled={exportingId === meme.id}
ExportDisabled(m) == exportingId = m

handleGenerate3D(memeId) ==
  /\ generatingId' = memeId
  /\ inflight' = [inflight EXCEPT ![<<"generate3d", memeId>>] = @ + 1]
  /\ UNCHANGED <<exportingId, done, failedStages>>

handleExport(memeId) ==
  /\ exportingId' = memeId
  /\ inflight' = [inflight EXCEPT ![<<"export", memeId>>] = @ + 1]
  /\ UNCHANGED <<generatingId, done, failedStages>>

ClickGenerate3D ==
  /\ \E m \in Ids(memes) :
       /\ ~Generate3DDisabled(m)
       /\ Total("generate3d") < MaxInflight
       /\ handleGenerate3D(m)
  /\ UNCHANGED <<homeVars, uploadVars, modalVars, sceneVars, renderVars, trendVars>>

ClickExport ==
  /\ \E m \in Ids(memes) :
       /\ ~ExportDisabled(m)
       /\ Total("export") < MaxInflight
       /\ handleExport(m)
  /\ UNCHANGED <<homeVars, uploadVars, modalVars, sceneVars, renderVars, trendVars>>

\* the awaited fetch of a stage handler settles: if (response.ok) / catch / finally
StageSettles(stage, m, outcome) ==
  /\ inflight[<<stage, m>>] > 0
  /\ inflight' = [inflight EXCEPT ![<<stage, m>>] = @ - 1]
  /\ IF outcome = "ok"
       THEN done' = done \cup {<<m, stage>>} /\ failedStages' = failedStages
       ELSE failedStages' = failedStages \cup {<<m, stage>>} /\ done' = done

Generate3DSettles ==
  /\ \E m \in MemeIds, outcome \in Outcomes : StageSettles("generate3d", m, outcome)
  /\ generatingId' = NoId
  /\ UNCHANGED <<exportingId, homeVars, uploadVars, modalVars, sceneVars, renderVars, trendVars>>

ExportSettles ==
  /\ \E m \in MemeIds, outcome \in Outcomes : StageSettles("export", m, outcome)
  /\ exportingId' = NoId
  /\ UNCHANGED <<generatingId, homeVars, uploadVars, modalVars, sceneVars, renderVars, trendVars>>

\* ===================================================== TrendingSection
MaxTrendRequests == 2   \* bound: GET /trending requests in flight at once

Categories == {"memes", "news", "pop_culture", "music"}
NoTrends == <<>>

\* data.trends of the response for a category
TrendsOf(category) == <<category>>

TotalTrendRequests ==
  trendRequests["memes"] + trendRequests["news"]
    + trendRequests["pop_culture"] + trendRequests["music"]

\* fetchTrending up to its await: setIsLoading(true), GET /trending?category=...
fetchTrending(category) ==
  /\ trendingIsLoading' = TRUE
  /\ trendRequests' = [trendRequests EXCEPT ![category] = @ + 1]
  /\ trends' = trends

\* as SelectCategory, but fetching from the click handler
SelectCategoryRefetch ==
  /\ \E category \in Categories :
       /\ TotalTrendRequests < MaxTrendRequests
       /\ selectedCategory' = category
       /\ fetchTrending(category)
  /\ UNCHANGED <<homeVars, uploadVars, modalVars, galleryVars, sceneVars, renderVars>>

\* a category button: setSelectedCategory(category); the effect runs again
\* only when selectedCategory changed
SelectCategory ==
  /\ \E category \in Categories :
       /\ category # selectedCategory
       /\ TotalTrendRequests < MaxTrendRequests
       /\ selectedCategory' = category
       /\ fetchTrending(category)
  /\ UNCHANGED <<homeVars, uploadVars, modalVars, galleryVars, sceneVars, renderVars>>

\* the awaited fetch of fetchTrending settles: data.trends || [] / catch / finally
trendingResponse(category, outcome) ==
  /\ trendRequests[category] > 0
  /\ trendRequests' = [trendRequests EXCEPT ![category] = @ - 1]
  /\ trends' = IF outcome = "ok" THEN TrendsOf(category) ELSE NoTrends
  /\ trendingIsLoading' = FALSE
  /\ selectedCategory' = selectedCategory

\* as TrendingSettles, but the response is also stored in Home (setTrending),
\* which renders Home again
TrendingSettlesInHome ==
  /\ \E category \in Categories, outcome \in Outcomes : trendingResponse(category, outcome)
  /\ interval' = (ModalMounted \/ interval)
  /\ UNCHANGED <<homeVars, uploadVars, galleryVars, sceneVars, renderVars>>
  /\ UNCHANGED <<step, isComplete, timeouts, completed, onCompleteCalls>>

TrendingSettles ==
  /\ \E category \in Categories, outcome \in Outcomes : trendingResponse(category, outcome)
  /\ UNCHANGED <<homeVars, uploadVars, modalVars, galleryVars, sceneVars, renderVars>>

\* ============================================ Scene (optimistic versioning)
MaxVersion == 3     \* bound: accepted writes per scene
MaxObjects == 3     \* bound: objects in the scene graph
MaxSamples == 3     \* bound: samples per trajectory

Clients == {"c1", "c2"}
Transforms == {"t0", "t1", "t2"}
NoRead == -1
NoParent == 0
Objects == 1..MaxObjects
NoWrite == <<"none", NoRead, "none">>
NoAttach == <<NoParent, NoParent, "none">>

\* a client rereads the scene
ReadScene ==
  /\ \E c \in Clients : clientRead' = [clientRead EXCEPT ![c] = sceneVersion]
  /\ UNCHANGED <<sceneVersion, sceneTransform, lastWrite, accepted, parent, lastAttach>>
  /\ UNCHANGED <<frontVars, renderVars>>

\* the version check of a transform write: the write is stale when the
\* scene's version has advanced since the edit was read
IsNewer(version) == version > sceneVersion
IsStale(version) == version # sceneVersion

\* a transform write carrying the version the client read
writeTransform(c, t) ==
  IF IsStale(clientRead[c])
    THEN /\ lastWrite' = <<c, clientRead[c], "ConflictError">>
         /\ UNCHANGED <<sceneVersion, sceneTransform, accepted>>
    ELSE /\ sceneVersion < MaxVersion
         /\ sceneTransform' = t
         /\ sceneVersion' = sceneVersion + 1
         /\ lastWrite' = <<c, clientRead[c], "accepted">>
         /\ accepted' = accepted \cup {<<c, clientRead[c]>>}

WriteTransform ==
  /\ \E c \in Clients, t \in Transforms :
       /\ clientRead[c] # NoRead
       /\ writeTransform(c, t)
  /\ UNCHANGED <<clientRead, parent, lastAttach>>
  /\ UNCHANGED <<frontVars, renderVars>>

\* ========================================================== SceneGraph
\* the k-th ancestor of x in the parent-index arena p
RECURSIVE Up(_, _, _)
Up(p, x, k) == IF k = 0 \/ x = NoParent THEN x ELSE Up(p, p[x], k - 1)
Ancestors(p, x) == {Up(p, x, k) : k \in 1..MaxObjects} \ {NoParent}
Descendants(p, x) == {y \in Objects : x \in Ancestors(p, y)}

\* attach is refused when the new parent is the object or one of its descendants
AttachOnlySelfCheck(object, newParent) == newParent = object
WouldCycle(object, newParent) ==
  newParent = object \/ newParent \in Descendants(parent, object)

attach(object, newParent) ==
  IF WouldCycle(object, newParent)
    THEN /\ lastAttach' = <<object, newParent, "CycleError">>
         /\ parent' = parent
    ELSE /\ parent' = [parent EXCEPT ![object] = newParent]
         /\ lastAttach' = <<object, newParent, "ok">>

Attach ==
  /\ \E object \in Objects, newParent \in Objects \cup {NoParent} : attach(object, newParent)
  /\ UNCHANGED <<sceneVersion, sceneTransform, clientRead, lastWrite, accepted>>
  /\ UNCHANGED <<frontVars, renderVars>>

detach(object) == parent' = [parent EXCEPT ![object] = NoParent]

Detach ==
  /\ \E object \in Objects : parent[object] # NoParent /\ detach(object)
  /\ UNCHANGED <<sceneVersion, sceneTransform, clientRead, lastWrite, accepted, lastAttach>>
  /\ UNCHANGED <<frontVars, renderVars>>

\* =============================================== Renderer, FrameEncoder
Poses == {"p0", "p1", "p2"}
FrameRates == {15, 30}
NoArtifact == [frameCount |-> -1, frameRate |-> -1, duration |-> <<-1, 1>>]

\* the Renderer emits the frame of the next trajectory sample
renderFrame(i) == [pose |-> trajectory[i], sample |-> i]

RenderFrame ==
  /\ Len(frames) < Len(trajectory)
  /\ frames' = Append(frames, renderFrame(Len(frames) + 1))
  /\ UNCHANGED <<trajectory, frameRate, encoded, artifact>>
  /\ UNCHANGED <<frontVars, sceneVars>>

\* the FrameEncoder accepts one frame and appends it: timestamp_i = i / fps
prependFrame(enc, frame) == <<[frame |-> frame, timestampIndex |-> Len(enc)]>> \o enc
appendFrame(enc, frame) == Append(enc, [frame |-> frame, timestampIndex |-> Len(enc)])

EncodeFrame ==
  /\ Len(encoded) < Len(frames)
  /\ encoded' = appendFrame(encoded, frames[Len(encoded) + 1])
  /\ UNCHANGED <<trajectory, frameRate, frames, artifact>>
  /\ UNCHANGED <<frontVars, sceneVars>>

\* the artifact declares frame count, frame rate and duration (a fraction)
declare(enc, rate) == [frameCount |-> Len(enc), frameRate |-> rate, duration |-> <<Len(enc), rate>>]

FinishEncoding ==
  /\ artifact = NoArtifact
  /\ Len(encoded) = Len(trajectory)
  /\ artifact' = declare(encoded, frameRate)
  /\ UNCHANGED <<trajectory, frameRate, frames, encoded>>
  /\ UNCHANGED <<frontVars, sceneVars>>

\* ====================================================== specifications
UploadModalInit ==
  /\ isLoading = FALSE /\ error = NoError /\ uploads = 0 /\ uploadAttempts = 0
  /\ step = 0 /\ isComplete = FALSE /\ interval = FALSE /\ timeouts = <<>>
  /\ completed = {} /\ onCompleteCalls = [m \in MemeIds |-> 0]

HomeInit ==
  /\ memes = <<>> /\ isProcessing = FALSE /\ currentMemeId = NoId
  /\ UploadModalInit

GalleryIdle ==
  /\ generatingId = NoId /\ exportingId = NoId
  /\ inflight = [p \in Stages \X MemeIds |-> 0]
  /\ done = {} /\ failedStages = {}

SceneInit ==
  /\ sceneVersion = 0 /\ sceneTransform = "t0"
  /\ clientRead = [c \in Clients |-> NoRead]
  /\ lastWrite = NoWrite /\ accepted = {}
  /\ parent = [o \in Objects |-> NoParent] /\ lastAttach = NoAttach

RenderIdle ==
  /\ trajectory = <<>> /\ frameRate = 15
  /\ frames = <<>> /\ encoded = <<>> /\ artifact = NoArtifact

\* TrendingSection after its mount: useState initial values and the first
\* run of the effect
TrendingInit ==
  /\ trends = NoTrends /\ trendingIsLoading = TRUE /\ selectedCategory = "memes"
  /\ trendRequests = [c \in Categories |-> IF c = "memes" THEN 1 ELSE 0]

Init == HomeInit /\ GalleryIdle /\ TrendingInit /\ SceneInit /\ RenderIdle

\* The application: in Home every meme keeps the status handleUploadSuccess
\* gave it, so Generate3DDisabled holds of every listed meme and
\* handleGenerate3D is never reached; Next lists the steps that can happen.
Next ==
  \/ SelectOrDropFile
  \/ UploadSettles
  \/ Tick
  \/ TimeoutFires
  \/ ClickExport
  \/ ExportSettles

Spec == Init /\ [][Next]_vars

\* MemeGallery on its own, mounted with any memes prop
GalleryStatuses == {"processing", "segmented"}
GalleryProps ==
  {ms \in UNION {[1..n -> [id : MemeIds, image_url : {UploadData(m).image_url : m \in MemeIds},
                           status : GalleryStatuses]] : n \in 1..MaxMemes} :
     /\ \A i, j \in 1..Len(ms) : ms[i].id = ms[j].id => i = j
     /\ \A i \in 1..Len(ms) : ms[i].image_url = UploadData(ms[i].id).image_url}

GalleryInit ==
  /\ UploadModalInit
  /\ memes \in GalleryProps /\ isProcessing = FALSE /\ currentMemeId = NoId
  /\ GalleryIdle /\ TrendingInit /\ SceneInit /\ RenderIdle

GalleryNext ==
  \/ ClickGenerate3D
  \/ Generate3DSettles
  \/ ClickExport
  \/ ExportSettles

GallerySpec == GalleryInit /\ [][GalleryNext]_vars

\* TrendingSection on its own
TrendingNext ==
  \/ SelectCategory
  \/ TrendingSettles

TrendingSpec == Init /\ [][TrendingNext]_vars

\* The page around TrendingSection: uploads and the processing modal
\* running while trends are requested and delivered
PageNext ==
  \/ SelectOrDropFile
  \/ UploadSettles
  \/ Tick
  \/ TimeoutFires
  \/ SelectCategory
  \/ TrendingSettles

PageSpec == Init /\ [][PageNext]_vars

\* The scene store: clients reading the scene and writing transforms
SceneNext ==
  \/ ReadScene
  \/ WriteTransform

SceneSpec == Init /\ [][SceneNext]_vars

\* The scene graph: attach and detach over the object arena
GraphNext ==
  \/ Attach
  \/ Detach

GraphSpec == Init /\ [][GraphNext]_vars

\* One export: Renderer and FrameEncoder over one trajectory
Trajectories == UNION {[1..n -> Poses] : n \in 1..MaxSamples}

RenderInit ==
  /\ HomeInit /\ GalleryIdle /\ TrendingInit /\ SceneInit
  /\ trajectory \in Trajectories /\ frameRate \in FrameRates
  /\ frames = <<>> /\ encoded = <<>> /\ artifact = NoArtifact

RenderNext ==
  \/ RenderFrame
  \/ EncodeFrame
  \/ FinishEncoding

RenderSpec == RenderInit /\ [][RenderNext]_vars

TypeOK ==
  /\ step \in 0..LastStep
  /\ \A p \in Stages \X MemeIds : inflight[p] \in 0..MaxInflight

\* ============================================================== claims
ProjectStatuses == {"uploaded", "segmented", "reconstructed", "composed", "exported", "failed"}
Lifecycle == <<"uploaded", "segmented", "reconstructed", "composed", "exported">>
Rank(s) == CHOOSE i \in 1..Len(Lifecycle) : Lifecycle[i] = s
InLifecycle(s) == \E i \in 1..Len(Lifecycle) : Lifecycle[i] = s
Terminal(s) == s = "exported"

\* C1: for every meme and every stage at most one execution (request in
\* flight) of that pair is active at any time.
C1_OneActivePerPair == \A p \in Stages \X MemeIds : inflight[p] <= 1

\* C2: an export of a meme is in flight only after a 3D generation of that
\* meme has completed, and a 3D generation only after its processing
\* (segmentation) has completed.
C2_PipelineOrder ==
  \A m \in MemeIds :
    /\ inflight[<<"export", m>>] > 0 => <<m, "generate3d">> \in done
    /\ inflight[<<"generate3d", m>>] > 0 => m \in completed

\* C3: the status of every listed meme is one of uploaded, segmented,
\* reconstructed, composed, exported, failed.
C3_StatusInLifecycle == \A i \in 1..Len(memes) : memes[i].status \in ProjectStatuses

\* C4: whenever a stage request of a meme comes back non-ok or throws, the
\* meme's status becomes failed.
C4_FailureMovesToFailed ==
  [][\A p \in failedStages' \ failedStages : StatusOf(memes', p[1]) = "failed"]_vars

\* C5: requesting a stage for a meme whose request for that stage has already
\* completed is a no-op: it starts no new execution and leaves the status as
\* it was.
C5_CompletedStageIsNoOp ==
  [][\A p \in Stages \X MemeIds :
       <<p[2], p[1]>> \in done =>
         /\ inflight'[p] <= inflight[p]
         /\ p[2] \in Ids(memes) => StatusOf(memes', p[2]) = StatusOf(memes, p[2])]_vars

\* C6: in every step the status of every listed meme stays as it is, moves
\* forward in the order uploaded, segmented, reconstructed, composed,
\* exported, moves to failed from a non-terminal status, or returns from
\* failed to a non-terminal status.
AllowedMove(s, t) ==
  \/ s = t
  \/ InLifecycle(s) /\ InLifecycle(t) /\ Rank(s) < Rank(t)
  \/ InLifecycle(s) /\ ~Terminal(s) /\ t = "failed"
  \/ s = "failed" /\ InLifecycle(t) /\ ~Terminal(t)

C7_OptimisticVersioning ==
  [][/\ lastWrite' # lastWrite =>
          IF lastWrite'[2] # sceneVersion
            THEN /\ lastWrite'[3] = "ConflictError"
                 /\ UNCHANGED <<sceneVersion, sceneTransform>>
            ELSE /\ lastWrite'[3] = "accepted"
                 /\ sceneVersion' = sceneVersion + 1
     /\ \A a, b \in accepted' : a[2] = b[2] => a = b]_vars

\* C7 witness: both clients wrote from the same read; one was accepted, the
\* other got ConflictError, reread and was accepted.
C7_Witness ==
  /\ <<"c1", 0>> \in accepted
  /\ <<"c2", 1>> \in accepted
  /\ lastWrite = <<"c2", 1, "accepted">>

\* C8: the parent relation stays acyclic, and an attach whose parent is the
\* object or one of its descendants fails with CycleError and leaves the
\* graph as it was.
Acyclic(p) == \A o \in Objects : o \notin Ancestors(p, o)

C8_AttachKeepsAcyclic ==
  [][/\ Acyclic(parent')
     /\ lastAttach' # lastAttach =>
          LET object == lastAttach'[1]
              newParent == lastAttach'[2]
          IN  (newParent = object \/ object \in Ancestors(parent, newParent)) =>
                lastAttach'[3] = "CycleError" /\ parent' = parent]_vars

\* C8 witness: a chain 3 -> 2 -> 1 exists and attaching its root under its
\* leaf was refused.
C8_Witness ==
  /\ parent[3] = 2 /\ parent[2] = 1
  /\ lastAttach = <<1, 3, "CycleError">>

\* C10: the frames emitted are those of the trajectory samples in order, they
\* are encoded in that order with timestamp index i for frame i, and the
\* artifact declares frame count N and duration N/F.
C10_FramesInTrajectoryOrder ==
  /\ Len(frames) <= Len(trajectory)
  /\ \A i \in 1..Len(frames) : frames[i] = [pose |-> trajectory[i], sample |-> i]
  /\ Len(encoded) <= Len(frames)
  /\ \A i \in 1..Len(encoded) :
       encoded[i].frame = frames[i] /\ encoded[i].timestampIndex = i - 1
  /\ artifact # NoArtifact =>
       /\ Len(frames) = Len(trajectory)
       /\ artifact.frameCount = Len(trajectory)
       /\ artifact.frameRate = frameRate
       /\ artifact.duration = <<Len(trajectory), frameRate>>

\* C10 witness: an artifact of a trajectory of at least two distinct samples.
C10_Witness ==
  /\ artifact # NoArtifact
  /\ Len(trajectory) >= 2
  /\ trajectory[1] # trajectory[2]

\* C9: once the modal's progression of a meme is torn down (the modal is
\* unmounted or shows another meme) it does no further tick and reports no
\* completion: step advances only while the interval is armed, and
\* onComplete(m) is invoked only while the modal is mounted on m.
C9_CancelledNeverReports ==
  [][/\ step' = step + 1 => interval
     /\ (timeouts # <<>> /\ timeouts' = Tail(timeouts)) =>
          ModalMounted /\ currentMemeId = Head(timeouts)]_vars

\* C11: a failing external call is retried before its failure is surfaced:
\* an upload whose failure is shown made more than one fetch attempt.
C11_RetriedBeforeSurfacing ==
  error = UploadFailedError => uploadAttempts > 1

\* C12: no request to the trend service is in flight before an export has
\* completed.
C12_TrendingOnlyAfterExport ==
  TotalTrendRequests > 0 => \E m \in MemeIds : <<m, "export">> \in done

\* C12, amended: a request to the trend service is issued only when the
\* selected category changes, for the newly selected category (the first
\* one on mount); whether an export has completed plays no part.
C12_TrendingOnCategoryChange ==
  [][\A c \in Categories :
       trendRequests'[c] > trendRequests[c] =>
         selectedCategory' = c /\ selectedCategory # c]_vars

\* C12 witness: requests for a newly selected category and for the first one
\* are in flight although nothing was exported.
C12_Witness ==
  /\ selectedCategory = "news"
  /\ trendRequests["news"] > 0 /\ trendRequests["memes"] > 0
  /\ done = {}

\* C13: no trending step (request issued, response delivered or failed)
\* changes memes, isProcessing, currentMemeId or any state that enables or
\* disables the upload, processing, 3D-generation and export actions.
C13_TrendingLeavesPipelineAlone ==
  [][trendVars' # trendVars =>
       UNCHANGED <<homeVars, uploadVars, modalVars, galleryVars>>]_vars

\* C13 witness: a trending response was delivered while an upload is in
\* flight and the processing modal waits for its completion timeout.
C13_Witness ==
  /\ trends # NoTrends
  /\ uploads > 0
  /\ ModalMounted /\ isComplete /\ timeouts # <<>>

\* C14: handleFileUpload of a file whose type does not start with image/
\* sets the error 'Please select an image file', sends no upload request,
\* does not invoke onUploadSuccess and leaves isLoading as it was.
C14_NonImageRejected ==
  [][\A file \in FileTypes :
       (~StartsWithImage(file) /\ handleFileUpload(file)) =>
         /\ error' = NotImageError
         /\ uploads' = uploads
         /\ isLoading' = isLoading
         /\ memes' = memes]_vars

\* C14 witness: a non-image file was refused while an upload is in flight.
C14_Witness ==
  /\ error = NotImageError
  /\ uploads > 0 /\ isLoading

\* C15: whenever an upload request is in flight, isLoading is true.
C15_LoadingWhileInFlight == uploads > 0 => isLoading

\* C16: once onComplete fired for a meme, its status is no longer
\* 'processing' and its Generate 3D button is enabled.
C16_CompletedLeavesProcessing ==
  \A m \in completed :
    StatusOf(memes, m) # "processing" /\ ~Generate3DDisabled(m)

\* C17: when no timer of the modal is pending any more, onComplete has been
\* invoked exactly once for every uploaded meme; it is never invoked twice.
C17_EveryUploadCompletesOnce ==
  /\ \A m \in MemeIds : onCompleteCalls[m] <= 1
  /\ (~interval /\ timeouts = <<>>) => \A m \in Ids(memes) : onCompleteCalls[m] = 1

\* C18: once every trending request has settled the trends shown are those
\* of the selected category, or none; and isLoading is true while a request
\* for the selected category is in flight.
C18_TrendsMatchSelection ==
  /\ TotalTrendRequests = 0 => trends \in {TrendsOf(selectedCategory), NoTrends}
  /\ trendRequests[selectedCategory] > 0 => trendingIsLoading

\* C19: when an upload settles, onUploadSuccess is invoked, once and with
\* the meme_id and image_url of the response, exactly when the outcome is
\* ok; otherwise nothing is listed and the error is 'Failed to upload.
\* Please try again.'; and isLoading is false once no upload is in flight.
C19_UploadOutcome ==
  [][\A outcome \in Outcomes :
       uploadResponse(outcome) =>
         LET data == UploadData(Len(memes) + 1)
         IN  /\ outcome = "ok" =>
                  /\ Len(memes') = Len(memes) + 1
                  /\ memes'[1].id = data.meme_id
                  /\ memes'[1].image_url = data.image_url
                  /\ currentMemeId' = data.meme_id
             /\ outcome # "ok" =>
                  /\ memes' = memes /\ currentMemeId' = currentMemeId
                  /\ error' = UploadFailedError
             /\ uploads' = 0 => ~isLoading']_vars

\* C19 witness: one upload was listed and another failed; none is in flight.
C19_Witness ==
  /\ Len(memes) >= 1
  /\ error = UploadFailedError
  /\ uploads = 0 /\ ~isLoading

\* C20: isProcessing is true exactly when currentMemeId is non-null, and a
\* non-null currentMemeId is the id of a listed meme.
C20_ProcessingHasListedMeme ==
  /\ isProcessing <=> currentMemeId # NoId
  /\ currentMemeId # NoId => currentMemeId \in Ids(memes)

\* C20 witness: the modal is open for the second meme after the first one's
\* completion closed it.
C20_Witness ==
  /\ isProcessing /\ currentMemeId = 2
  /\ 1 \in completed

\* C21: a meme's progression in ProcessingModal starts at step 0: whenever
\* the modal is handed another meme id, step is 0.
C21_StepStartsAtZero ==
  [][(currentMemeId' # currentMemeId /\ currentMemeId' # NoId) => step' = 0]_vars

\* C21, the rest of the claim: step lies in 0..4; while the modal shows one
\* meme step never decreases and moves by one per tick; isComplete is true
\* only at step 4; and a tick at step 4 leaves step alone.
C21_StepWithinProgression ==
  [][/\ step' \in 0..LastStep
     /\ (ModalMounted /\ ModalMounted' /\ currentMemeId' = currentMemeId) =>
          step' \in {step, step + 1}
     /\ step' # step => (step' = 0 \/ Tick)
     /\ isComplete' => step' = LastStep
     /\ (step = LastStep /\ Tick) => step' = step]_vars
====
